---------------------------- MODULE Spec2Model ----------------------------
(***************************************************************************)
(* Model of zubax_chibios:                                                 *)
(*   bootloader/util.hpp  - the CRC64WE accumulator and the error codes    *)
(*   sys/sys.cpp          - the system halt hook, the assertion handler,   *)
(*                          the heap stubs and the reboot request flag     *)
(*                                                                         *)
(* Two specifications share the module: SpecCrc drives one CRC64WE object  *)
(* over an input buffer, Spec drives the code of sys.cpp from a thread     *)
(* context and an interrupt context.                                       *)
(***************************************************************************)
EXTENDS Integers, Sequences, FiniteSets, TLC

VARIABLES
    \* ---- bootloader/util.hpp: one CRC64WE object and its caller
    crc_,          \* CRC64WE::crc_, a 64-bit word (bit 63 first)
    data,          \* the caller's input buffer, a sequence of bytes
    pos,           \* how many bytes of data the caller has fed so far
    result,        \* what the last get() returned, NoResult before the first
    prevResult,    \* what the get() right before the last one returned
    lastOp,        \* the last call made on the object
    kinds,         \* which of add(byte) and add(data, len) have been called
    interleaved,   \* whether an add call has followed a get call
    \* ---- sys/sys.cpp
    build,         \* the preprocessor configuration of the build
    hw,            \* the environment: debugger flag, the current thread
    pc,            \* each context's position
    stack,         \* each context's return addresses
    call,          \* each context's call in flight from application code
    ret,           \* each context's last call that returned, with its value
    aargs,         \* each context's arguments of __assert_func
    msg,           \* each context's argument of chSysHalt / zchSysHaltHook
    irqEnabled,    \* FALSE once port_disable() has run
    out,           \* the strings handed to emergencyPrint(), in order
    sink,          \* whether the byte sink behind emergencyPrint() works
    delivered,     \* the strings the byte sink has put on the wire
    log,           \* hook / port_disable / emergencyPrint events, in order
    buffer,        \* __assert_func's static buffer
    bkpt,          \* whether the bkpt instruction has been executed
    reboot_request_flag

crcVars == <<crc_, data, pos, result, prevResult, lastOp, kinds, interleaved>>
sysVars == <<build, hw, pc, stack, call, ret, aargs, msg, irqEnabled, out, sink,
             delivered, log, buffer, bkpt, reboot_request_flag>>
vars == <<crcVars, sysVars>>

(***************************************************************************)
(* bootloader/util.hpp                                                     *)
(***************************************************************************)

\* Error codes (util.hpp:22-25)
ErrOK == 0
ErrInvalidState == 10001
ErrAppImageTooLarge == 10002
ErrAppStorageWriteFailure == 10003

\* std::uint64_t: a word is four 16-bit limbs, the most significant first
\* (0x42F0E1EBA9EA3693 is <<\H42F0, \HE1EB, \HA9EA, \H3693>>); every
\* operation below keeps each limb below 2^16, which is arithmetic modulo 2^64.
LimbBits == 16
Limbs == 4
LimbMod == 2 ^ LimbBits

\* Bitwise exclusive or of two n-bit naturals, bit by bit.
RECURSIVE BitXor(_, _, _)
BitXor(a, b, n) ==
    IF n = 0 THEN 0
    ELSE ((a + b) % 2) + 2 * BitXor(a \div 2, b \div 2, n - 1)

\* The exclusive or of two hexadecimal digits, tabulated once.
NibbleXor == [a \in 0..15 |-> [b \in 0..15 |-> BitXor(a, b, 4)]]

\* The exclusive or of two limbs, digit by digit.
LimbXor(a, b) ==
    NibbleXor[a \div 4096][b \div 4096] * 4096
    + NibbleXor[(a \div 256) % 16][(b \div 256) % 16] * 256
    + NibbleXor[(a \div 16) % 16][(b \div 16) % 16] * 16
    + NibbleXor[a % 16][b % 16]

Xor64(a, b) ==
    <<LimbXor(a[1], b[1]), LimbXor(a[2], b[2]),
      LimbXor(a[3], b[3]), LimbXor(a[4], b[4])>>
\* a << n on a 64-bit unsigned, 0 <= n < 64: the bits shifted out of the
\* top are lost. k whole limbs and then m bits.
Shl64(a, n) ==
    LET k == n \div LimbBits
        m == n % LimbBits
        L(i) == IF i + k <= Limbs THEN a[i + k] ELSE 0
        Keep == 2 ^ (LimbBits - m)
        S(i) == ((L(i) % Keep) * (2 ^ m)) + (L(i + 1) \div Keep)
    IN  <<S(1), S(2), S(3), S(4)>>

\* std::uint64_t(byte): the byte in bits 7..0.
U64(byte) == <<0, 0, 0, byte>>

AllOnes == <<\HFFFF, \HFFFF, \HFFFF, \HFFFF>>
\* A seed of zero.
InitialCrc_Zero == <<0, 0, 0, 0>>
\* CRC64WE::crc_ initializer (util.hpp:39)
InitialCrc == <<\HFFFF, \HFFFF, \HFFFF, \HFFFF>>
\* static constexpr Poly (util.hpp:44)
Poly == <<\H42F0, \HE1EB, \HA9EA, \H3693>>
\* static constexpr Mask = std::uint64_t(1) << 63 (util.hpp:45)
Mask == Shl64(U64(1), 63)
\* (crc & Mask) as a condition: whether bit 63, the top bit of the first
\* limb, is set.
AndMask(crc) == crc[1] >= Mask[1]

\* One of the eight unrolled lines (util.hpp:50-57):
\*   crc_ = (crc_ & Mask) ? (crc_ << 1) ^ Poly : crc_ << 1;
Round(crc) ==
    IF AndMask(crc) THEN Xor64(Shl64(crc, 1), Poly) ELSE Shl64(crc, 1)

\* A per-byte update that tests the top bit after the shift, not before.
add_TestAfterShift(crc, byte) ==
    LET R(c) == IF AndMask(Shl64(c, 1))
                THEN Xor64(Shl64(c, 1), Poly) ELSE Shl64(c, 1)
        c0 == Xor64(crc, Shl64(U64(byte), 56))
    IN  R(R(R(R(R(R(R(R(c0))))))))

\* A per-byte update that leaves bit 0 of the byte out.
add_IgnoresBit0(crc, byte) ==
    LET c0 == Xor64(crc, Shl64(U64(byte - (byte % 2)), 56))
    IN  Round(Round(Round(Round(Round(Round(Round(Round(c0))))))))

\* void CRC64WE::add(std::uint8_t byte) (util.hpp:42-58): the new crc_.
add(crc, byte) ==
    LET c0 == Xor64(crc, Shl64(U64(byte), 56))
    IN  Round(Round(Round(Round(Round(Round(Round(Round(c0))))))))

\* crc.add(byte) on the stored value of crc: the binder makes crc a
\* computed value before add is applied to it, as the loop below stores
\* crc_ after each byte.
addStored(crc, byte) == CHOOSE r \in {add(c, byte) : c \in {crc}} : TRUE

\* A buffer loop that stops one byte early: while (--len > 0).
RECURSIVE addBuf_StopsEarly(_, _, _)
addBuf_StopsEarly(crc, bytes, len) ==
    IF len - 1 > 0
    THEN addStored(addBuf_StopsEarly(crc, bytes, len - 1), bytes[len - 1])
    ELSE crc

\* void CRC64WE::add(const void* data, unsigned len) (util.hpp:60-68), for a
\* non-null data: while (len --> 0) add(*bytes++). The loop folds bytes[1],
\* bytes[2], ... in this order, so crc_ after len bytes is add() of the
\* len-th byte on crc_ after len - 1 bytes.
RECURSIVE addBuf(_, _, _)
addBuf(crc, bytes, len) ==
    IF len > 0
    THEN addStored(addBuf(crc, bytes, len - 1), bytes[len])
    ELSE crc

\* A get() that finalizes in place: crc_ ^= 0xFFFFFFFFFFFFFFFF; return crc_.
get_InPlace(crc) ==
    [crc_ |-> Xor64(crc, AllOnes), value |-> Xor64(crc, AllOnes)]

\* std::uint64_t CRC64WE::get() const (util.hpp:70): the value returned and
\* the object's crc_ after the call.
get(crc) ==
    [crc_ |-> crc, value |-> Xor64(crc, AllOnes)]

\* ---- the caller of the CRC64WE object

\* The longest input buffer drawn from ByteSet.
MaxLen == 3
ByteSet == {0, 1, 2, 3, 255}
\* "123456789" in ASCII
CheckInput == <<49, 50, 51, 52, 53, 54, 55, 56, 57>>
\* Check: 0x62EC59E3F1A4F00A (util.hpp:35)
CheckValue == <<\H62EC, \H59E3, \HF1A4, \HF00A>>

RECURSIVE SeqsUpTo(_, _)
SeqsUpTo(S, n) ==
    IF n = 0 THEN {<<>>}
    ELSE LET shorter == SeqsUpTo(S, n - 1)
         IN  shorter \cup {Append(s, b) : s \in shorter, b \in S}

Inputs == SeqsUpTo(ByteSet, MaxLen) \cup {CheckInput}

NoResult == "no result"

InitCrcVars ==
    /\ crc_ = InitialCrc
    /\ data \in Inputs
    /\ pos = 0
    /\ result = NoResult
    /\ prevResult = NoResult
    /\ lastOp = "construct"
    /\ kinds = {}
    /\ interleaved = FALSE

\* crc.add(data[pos])
AddByte ==
    /\ pc["thread"] = "app" /\ pc["isr"] = "idle"
    /\ pos < Len(data)
    /\ crc_' = add(crc_, data[pos + 1])
    /\ pos' = pos + 1
    /\ lastOp' = "add"
    /\ kinds' = kinds \cup {"byte"}
    /\ interleaved' = (interleaved \/ lastOp = "get")
    /\ UNCHANGED <<data, result, prevResult, sysVars>>

\* crc.add(&data[pos], len), for every len the rest of the buffer allows
AddBuffer ==
    \E len \in 0..(Len(data) - pos) :
        /\ pc["thread"] = "app" /\ pc["isr"] = "idle"
        \* :63 assert(bytes != nullptr) passes: &data[pos] is not null
        /\ crc_' = addBuf(crc_, SubSeq(data, pos + 1, Len(data)), len)
        /\ pos' = pos + len
        /\ lastOp' = "add"
        /\ kinds' = kinds \cup {"buffer"}
        /\ interleaved' = (interleaved \/ lastOp = "get")
        /\ UNCHANGED <<data, result, prevResult, sysVars>>

\* crc.get()
Get ==
    LET r == get(crc_)
    IN  /\ pc["thread"] = "app" /\ pc["isr"] = "idle"
        /\ crc_' = r.crc_
        /\ result' = r.value
        /\ prevResult' = IF lastOp = "get" THEN result ELSE NoResult
        /\ lastOp' = "get"
        /\ UNCHANGED <<data, pos, kinds, interleaved, sysVars>>

(***************************************************************************)
(* sys/sys.cpp                                                             *)
(***************************************************************************)

\* ---- pointers and strings
\* A null pointer, a pointer to a string literal, and the address of
\* __assert_func's static buffer, whose content is read when it is printed.
NULL == <<>>
Lit(s) == <<"lit", s>>
BufferPtr == <<"buffer">>
Deref(p, buf) == IF p = BufferPtr THEN buf ELSE p[2]
\* A non-null void* handed to free() / realloc()
SomeObject == <<"obj">>

Min(a, b) == IF a < b THEN a ELSE b

\* chsnprintf(buf, size, ...): at most size - 1 characters are stored.
Truncate(s, size) == SubSeq(s, 1, Min(Len(s), size - 1))

HexDigit(n) == SubSeq("0123456789abcdef", n + 1, n + 1)
RECURSIVE Hex(_)
Hex(v) == IF v < 16 THEN HexDigit(v) ELSE Hex(v \div 16) \o HexDigit(v % 16)
RECURSIVE ZeroPad(_, _)
ZeroPad(s, width) == IF Len(s) >= width THEN s ELSE ZeroPad("0" \o s, width)
RECURSIVE Dec(_)
Dec(n) ==
    IF n < 0 THEN "-" \o Dec(0 - n)
    ELSE IF n < 10 THEN HexDigit(n)
    ELSE Dec(n \div 10) \o HexDigit(n % 10)

\* char buffer[20] of print_register (sys.cpp:112)
RegisterBufferSize == 20
\* static char buffer[200] of __assert_func (sys.cpp:199)
AssertBufferSize == 200
\* The field width of "%08x" (sys.cpp:113)
HexWidth == 8

\* chsnprintf(&buffer[0], sizeof(buffer), "%08x", value) (sys.cpp:113)
FormatRegister(value) == Truncate(ZeroPad(Hex(value), HexWidth), RegisterBufferSize)

\* A format that hands a null function name to "%s", printed "(null)".
FormatAssert_NullFunc(file, line, func, expr) ==
    Truncate(file \o ":" \o Dec(line) \o ":"
                  \o (IF func = NULL THEN "(null)" ELSE Deref(func, "")) \o ":" \o expr,
             AssertBufferSize)

\* chsnprintf(&buffer[0], sizeof(buffer), "%s:%d:%s:%s", file, line,
\*            (func == nullptr) ? "" : func, expr) (sys.cpp:200-201)
FormatAssert(file, line, func, expr) ==
    Truncate(file \o ":" \o Dec(line) \o ":"
                  \o (IF func = NULL THEN "" ELSE Deref(func, "")) \o ":" \o expr,
             AssertBufferSize)

\* ---- the byte sink
\* extern void emergencyPrint(const char* str) (sys.cpp:24): the sink's
\* record of the strings it was handed.
emergencyPrint(o, str) == Append(o, str)

RECURSIVE PrintAll(_, _)
PrintAll(o, strs) ==
    IF strs = <<>> THEN o ELSE PrintAll(emergencyPrint(o, Head(strs)), Tail(strs))

\* ---- the register readers (the environment)
\* The core registers, the stack pointers and the SCB registers hold
\* distinct values; the word at a stack address holds its offset.
CoreRegisterNames ==
    <<"CONTROL", "IPSR", "APSR", "xPSR", "PRIMASK", "BASEPRI", "FAULTMASK", "FPSCR">>
ScbRegisterNames ==
    <<"AIRCR", "SCR", "CCR", "SHCSR", "CFSR", "HFSR", "DFSR", "MMFAR", "BFAR", "AFSR">>
RamBase == 536870912
ReadCore(name) == CHOOSE i \in 1..Len(CoreRegisterNames) : CoreRegisterNames[i] = name
ReadScb(name) == 256 * (CHOOSE i \in 1..Len(ScbRegisterNames) : ScbRegisterNames[i] = name)
ReadPSP == RamBase + 4096
ReadMSP == RamBase + 8192
ReadWord(addr) == addr - RamBase

\* ---- the build and the environment
Builds ==
    [ asserts : BOOLEAN,                      \* NDEBUG not defined
      DEBUG_BUILD : BOOLEAN,
      AGGRESSIVE_SIZE_OPTIMIZATION : BOOLEAN,
      CH_CFG_USE_REGISTRY : BOOLEAN,
      CORTEX_M : {0, 3, 4} ]

\* chThdGetSelfX(): a null pointer, a thread with no name, a named thread.
Threads == {NULL, <<NULL>>, <<Lit("main")>>}
Environments == [ C_DEBUGEN : BOOLEAN, self : Threads ]

\* emergencyPrint returns nothing: its caller cannot tell a sink that works
\* from one that drops what it is handed.
Sinks == {"works", "drops"}

Ctx == {"thread", "isr"}
NoCall == [fn |-> "none", args |-> <<>>]
NoRet == [fn |-> "none", args |-> <<>>, value |-> <<>>]
NoAssert == [file |-> "", line |-> 0, func |-> NULL, expr |-> ""]

\* What the build never reads is not varied: the thread without the
\* registry (sys.cpp:92), the debugger flag outside a debug build
\* (sys.cpp:174), the core's version without the register dump (sys.cpp:107).
Configured(b, e) ==
    /\ ~b.CH_CFG_USE_REGISTRY => e.self = NULL
    /\ ~b.DEBUG_BUILD => ~e.C_DEBUGEN
    /\ b.AGGRESSIVE_SIZE_OPTIMIZATION => b.CORTEX_M = 0

InitSysVars ==
    /\ build \in Builds
    /\ hw \in Environments
    /\ Configured(build, hw)
    /\ pc = [c \in Ctx |-> IF c = "thread" THEN "app" ELSE "idle"]
    /\ stack = [c \in Ctx |-> <<>>]
    /\ call = [c \in Ctx |-> NoCall]
    /\ ret = [c \in Ctx |-> NoRet]
    /\ aargs = [c \in Ctx |-> NoAssert]
    /\ msg = [c \in Ctx |-> NULL]
    /\ irqEnabled = TRUE
    /\ out = <<>>
    /\ sink \in Sinks
    /\ delivered = <<>>
    /\ log = <<>>
    /\ buffer = ""
    /\ bkpt = FALSE
    /\ reboot_request_flag = FALSE

\* ---- scheduling: one core; the interrupt context preempts the thread
Running(c) == IF pc["isr"] # "idle" THEN c = "isr" ELSE c = "thread"

Event(c, ev) == [ctx |-> c, ev |-> ev, irq |-> irqEnabled]

\* The values returned to application code besides pointers: none, and a
\* bool.
Void == <<"void">>
Bool(b) == IF b THEN <<"true">> ELSE <<"false">>

\* A call from application code returns value to it.
Returns(c, fn, args, value) ==
    /\ ret' = [ret EXCEPT ![c] = [fn |-> fn, args |-> args, value |-> value]]
    /\ call' = [call EXCEPT ![c] = NoCall]
    /\ pc' = [pc EXCEPT ![c] = "app"]

\* A call from application code is in flight at label, to return to "app".
Enters(c, fn, args, label, cont) ==
    /\ call' = [call EXCEPT ![c] = [fn |-> fn, args |-> args]]
    /\ ret' = [ret EXCEPT ![c] = NoRet]
    /\ pc' = [pc EXCEPT ![c] = label]
    /\ stack' = [stack EXCEPT ![c] = cont \o <<"app">> \o @]

\* The assert() macro: nothing when NDEBUG is defined, else a call of
\* __assert_func(__FILE__, __LINE__, __func__, #expr) when cond is false.
AssertFires(cond) == build.asserts /\ ~cond

\* ---- the fatal halt path

\* A panic line that prints "<?>" where no thread name is to be had.
PanicLine_Placeholder(m, buf) ==
    <<"\r\nPANIC [">>
    \o (IF build.CH_CFG_USE_REGISTRY /\ hw.self # NULL /\ hw.self[1] # NULL
        THEN <<Deref(hw.self[1], buf)>> ELSE <<"<?>">>)
    \o <<"] ">>
    \o (IF m # NULL THEN <<Deref(m, buf)>> ELSE <<>>)
    \o <<"\r\n">>

\* The strings zchSysHaltHook prints for the panic line (sys.cpp:91-105).
PanicLine(m, buf) ==
    <<"\r\nPANIC [">>
    \o (IF build.CH_CFG_USE_REGISTRY /\ hw.self # NULL /\ hw.self[1] # NULL
        THEN <<Deref(hw.self[1], buf)>> ELSE <<>>)
    \o <<"] ">>
    \o (IF m # NULL THEN <<Deref(m, buf)>> ELSE <<>>)
    \o <<"\r\n">>

\* The lambda print_register (sys.cpp:108-116): its four sink calls.
print_register(name, value) ==
    <<name, "\t", FormatRegister(value), "\r\n">>

\* A print_stack that reads the words at ptr[1] .. ptr[8].
print_stack_OffByOne(ptr) ==
    print_register("Pointer", ptr)
    \o print_register("R0", ReadWord(ptr + 4))
    \o print_register("R1", ReadWord(ptr + 8))
    \o print_register("R2", ReadWord(ptr + 12))
    \o print_register("R3", ReadWord(ptr + 16))
    \o print_register("R12", ReadWord(ptr + 20))
    \o print_register("R14[LR]", ReadWord(ptr + 24))
    \o print_register("R15[PC]", ReadWord(ptr + 28))
    \o print_register("PSR", ReadWord(ptr + 32))

\* The lambda print_stack (sys.cpp:118-129).
print_stack(ptr) ==
    print_register("Pointer", ptr)
    \o print_register("R0", ReadWord(ptr + 0))
    \o print_register("R1", ReadWord(ptr + 4))
    \o print_register("R2", ReadWord(ptr + 8))
    \o print_register("R3", ReadWord(ptr + 12))
    \o print_register("R12", ReadWord(ptr + 16))
    \o print_register("R14[LR]", ReadWord(ptr + 20))
    \o print_register("R15[PC]", ReadWord(ptr + 24))
    \o print_register("PSR", ReadWord(ptr + 28))

PRINT_CORE_REGISTER(name) == print_register(name, ReadCore(name))
PRINT_SCB_REGISTER(name) == print_register(name, ReadScb(name))

\* sys.cpp:134-148
CoreRegisters ==
    <<"\r\nCore registers:\r\n">>
    \o PRINT_CORE_REGISTER("CONTROL")
    \o PRINT_CORE_REGISTER("IPSR")
    \o PRINT_CORE_REGISTER("APSR")
    \o PRINT_CORE_REGISTER("xPSR")
    \o PRINT_CORE_REGISTER("PRIMASK")
    \o (IF build.CORTEX_M >= 3
        THEN PRINT_CORE_REGISTER("BASEPRI") \o PRINT_CORE_REGISTER("FAULTMASK")
        ELSE <<>>)
    \o (IF build.CORTEX_M >= 4 THEN PRINT_CORE_REGISTER("FPSCR") ELSE <<>>)

\* sys.cpp:150-151
ProcessStack == <<"\r\nProcess stack:\r\n">> \o print_stack(ReadPSP)
\* sys.cpp:153-154
MainStack == <<"\r\nMain stack:\r\n">> \o print_stack(ReadMSP)
\* sys.cpp:156-168
ScbRegisters ==
    <<"\r\nSCB:\r\n">>
    \o PRINT_SCB_REGISTER("AIRCR")
    \o PRINT_SCB_REGISTER("SCR")
    \o PRINT_SCB_REGISTER("CCR")
    \o PRINT_SCB_REGISTER("SHCSR")
    \o PRINT_SCB_REGISTER("CFSR")
    \o PRINT_SCB_REGISTER("HFSR")
    \o PRINT_SCB_REGISTER("DFSR")
    \o PRINT_SCB_REGISTER("MMFAR")
    \o PRINT_SCB_REGISTER("BFAR")
    \o PRINT_SCB_REGISTER("AFSR")

\* A block of sink calls that gives the report up when the sink has dropped
\* its strings, and goes on to the breakpoint.
Prints_GivesUp(c, strs, next) ==
    /\ out' = PrintAll(out, strs)
    /\ delivered' = IF sink = "works" THEN delivered \o strs ELSE delivered
    /\ log' = Append(log, Event(c, "emergencyPrint"))
    /\ pc' = [pc EXCEPT ![c] = IF sink = "works" THEN next ELSE "breakpoint"]
    /\ UNCHANGED <<crcVars, build, hw, sink, stack, call, ret, aargs, msg, irqEnabled,
                   buffer, bkpt, reboot_request_flag>>

\* One block of sink calls made at label, then on to next.
Prints(c, strs, next) ==
    /\ out' = PrintAll(out, strs)
    /\ delivered' = IF sink = "works" THEN delivered \o strs ELSE delivered
    /\ log' = Append(log, Event(c, "emergencyPrint"))
    /\ pc' = [pc EXCEPT ![c] = next]
    /\ UNCHANGED <<crcVars, build, hw, sink, stack, call, ret, aargs, msg, irqEnabled, buffer,
                   bkpt, reboot_request_flag>>

\* __attribute__((weak)) void applicationHaltHook(void) { } (sys.cpp:26-27)
applicationHaltHook(c) ==
    /\ Running(c)
    /\ pc[c] = "applicationHaltHook"
    /\ pc' = [pc EXCEPT ![c] = Head(stack[c])]
    /\ stack' = [stack EXCEPT ![c] = Tail(@)]
    /\ UNCHANGED <<crcVars, build, hw, sink, call, ret, aargs, msg, irqEnabled, out, delivered, log, buffer,
                   bkpt, reboot_request_flag>>

\* zchSysHaltHook, sys.cpp:85: applicationHaltHook();
HaltHookCallsHook(c) ==
    /\ pc[c] = "zchSysHaltHook"
    /\ pc' = [pc EXCEPT ![c] = "applicationHaltHook"]
    /\ stack' = [stack EXCEPT ![c] = <<"port_disable">> \o @]
    /\ log' = Append(log, Event(c, "applicationHaltHook"))
    /\ UNCHANGED <<crcVars, build, hw, sink, call, ret, aargs, msg, irqEnabled, out, delivered,
                   buffer, bkpt, reboot_request_flag>>

\* zchSysHaltHook, sys.cpp:90: port_disable();
HaltHookDisables(c) ==
    /\ pc[c] = "port_disable"
    /\ irqEnabled' = FALSE
    /\ log' = Append(log, Event(c, "port_disable"))
    /\ pc' = [pc EXCEPT ![c] = "panic_line"]
    /\ UNCHANGED <<crcVars, build, hw, sink, stack, call, ret, aargs, msg, out, delivered, buffer,
                   bkpt, reboot_request_flag>>

\* zchSysHaltHook, sys.cpp:91-179: the panic line, the register dump unless
\* the build is optimized for size, and the breakpoint.
HaltHookReports(c) ==
    \/ /\ pc[c] = "panic_line"                \* :91-105
       /\ Prints(c, PanicLine(msg[c], buffer),
                 IF build.AGGRESSIVE_SIZE_OPTIMIZATION
                 THEN "breakpoint" ELSE "core_registers")
    \/ /\ pc[c] = "core_registers"            \* :134-148
       /\ Prints(c, CoreRegisters, "process_stack")
    \/ /\ pc[c] = "process_stack"             \* :150-151
       /\ Prints(c, ProcessStack, "main_stack")
    \/ /\ pc[c] = "main_stack"                \* :153-154
       /\ Prints(c, MainStack, "scb")
    \/ /\ pc[c] = "scb"                       \* :156-168
       /\ Prints(c, ScbRegisters, "breakpoint")
    \/ /\ pc[c] = "breakpoint"                \* :174-179
       /\ bkpt' = (bkpt \/ (build.DEBUG_BUILD /\ hw.C_DEBUGEN))
       /\ pc' = [pc EXCEPT ![c] = "return"]
       /\ UNCHANGED <<crcVars, build, hw, sink, stack, call, ret, aargs, msg,
                      irqEnabled, out, delivered, log, buffer, reboot_request_flag>>

\* A halt hook that never disables the interrupts.
zchSysHaltHook_NoDisable(c) ==
    /\ Running(c)
    /\ \/ HaltHookCallsHook(c)
       \/ /\ pc[c] = "port_disable"
          /\ pc' = [pc EXCEPT ![c] = "panic_line"]
          /\ UNCHANGED <<crcVars, build, hw, sink, stack, call, ret, aargs, msg,
                         irqEnabled, out, delivered, log, buffer, bkpt, reboot_request_flag>>
       \/ HaltHookReports(c)

\* A halt hook that disables the interrupts first and calls the
\* application's hook after that.
zchSysHaltHook_DisablesFirst(c) ==
    /\ Running(c)
    /\ \/ /\ pc[c] = "zchSysHaltHook"
          /\ irqEnabled' = FALSE
          /\ log' = Append(log, Event(c, "port_disable"))
          /\ pc' = [pc EXCEPT ![c] = "call_hook"]
          /\ UNCHANGED <<crcVars, build, hw, sink, stack, call, ret, aargs, msg, out, delivered,
                         buffer, bkpt, reboot_request_flag>>
       \/ /\ pc[c] = "call_hook"
          /\ pc' = [pc EXCEPT ![c] = "applicationHaltHook"]
          /\ stack' = [stack EXCEPT ![c] = <<"panic_line">> \o @]
          /\ log' = Append(log, Event(c, "applicationHaltHook"))
          /\ UNCHANGED <<crcVars, build, hw, sink, call, ret, aargs, msg, irqEnabled,
                         out, delivered, buffer, bkpt, reboot_request_flag>>
       \/ HaltHookReports(c)

\* void zchSysHaltHook(const char* msg) (sys.cpp:81-180), from its entry to
\* its last statement.
zchSysHaltHook(c) ==
    /\ Running(c)
    /\ \/ HaltHookCallsHook(c)
       \/ HaltHookDisables(c)
       \/ HaltHookReports(c)

\* The return of a function to its caller: of zchSysHaltHook (sys.cpp:180),
\* and of free and _unhandled_exception after their chSysHalt call.
FunctionReturn(c) ==
    /\ Running(c)
    /\ pc[c] \in {"return", "free_return", "unhandled_return"}
    /\ LET to == Head(stack[c])
       IN  /\ stack' = [stack EXCEPT ![c] = Tail(@)]
           /\ IF to = "app"
              THEN Returns(c, call[c].fn, call[c].args, Void)
              ELSE /\ pc' = [pc EXCEPT ![c] = to]
                   /\ UNCHANGED <<call, ret>>
    /\ UNCHANGED <<crcVars, build, hw, sink, aargs, msg, irqEnabled, out, delivered, log, buffer, bkpt,
                   reboot_request_flag>>

\* chSysHalt(reason) of the OS: it runs the system halt hook on reason and
\* then stays in its loop for ever.
chSysHalt(c) ==
    /\ Running(c)
    /\ pc[c] = "chSysHalt"
    /\ pc' = [pc EXCEPT ![c] = "zchSysHaltHook"]
    /\ stack' = [stack EXCEPT ![c] = <<"halted">> \o @]
    /\ UNCHANGED <<crcVars, build, hw, sink, call, ret, aargs, msg, irqEnabled, out, delivered, log, buffer,
                   bkpt, reboot_request_flag>>

\* void _unhandled_exception() (sys.cpp:187-190)
_unhandled_exception(c) ==
    /\ Running(c)
    /\ pc[c] = "_unhandled_exception"
    /\ msg' = [msg EXCEPT ![c] = Lit("UNDEFINED IRQ")]
    /\ pc' = [pc EXCEPT ![c] = "chSysHalt"]
    /\ stack' = [stack EXCEPT ![c] = <<"unhandled_return">> \o @]
    /\ UNCHANGED <<crcVars, build, hw, sink, call, ret, aargs, irqEnabled, out, delivered, log, buffer, bkpt,
                   reboot_request_flag>>

\* An assertion handler that runs the halt hook itself and returns.
__assert_func_Returns(c) ==
    /\ Running(c)
    /\ \/ /\ pc[c] = "__assert_func"
          /\ irqEnabled' = FALSE
          /\ log' = Append(log, Event(c, "port_disable"))
          /\ pc' = [pc EXCEPT ![c] = "chsnprintf"]
          /\ UNCHANGED <<stack, msg, buffer>>
       \/ /\ pc[c] = "chsnprintf"
          /\ buffer' = FormatAssert(aargs[c].file, aargs[c].line, aargs[c].func,
                                    aargs[c].expr)
          /\ pc' = [pc EXCEPT ![c] = "assert_halt"]
          /\ UNCHANGED <<stack, msg, irqEnabled, log>>
       \/ /\ pc[c] = "assert_halt"
          /\ msg' = [msg EXCEPT ![c] = BufferPtr]
          /\ pc' = [pc EXCEPT ![c] = "zchSysHaltHook"]
          /\ UNCHANGED <<stack, irqEnabled, log, buffer>>
    /\ UNCHANGED <<crcVars, build, hw, sink, call, ret, aargs, out, delivered, bkpt, reboot_request_flag>>

\* void __assert_func(file, line, func, expr) (sys.cpp:193-205)
__assert_func(c) ==
    /\ Running(c)
    /\ \/ /\ pc[c] = "__assert_func"             \* :195 port_disable();
          /\ irqEnabled' = FALSE
          /\ log' = Append(log, Event(c, "port_disable"))
          /\ pc' = [pc EXCEPT ![c] = "chsnprintf"]
          /\ UNCHANGED <<stack, msg, buffer>>
       \/ /\ pc[c] = "chsnprintf"                \* :199-201
          /\ buffer' = FormatAssert(aargs[c].file, aargs[c].line, aargs[c].func,
                                    aargs[c].expr)
          /\ pc' = [pc EXCEPT ![c] = "assert_halt"]
          /\ UNCHANGED <<stack, msg, irqEnabled, log>>
       \/ /\ pc[c] = "assert_halt"               \* :202 chSysHalt(&buffer[0]);
          /\ msg' = [msg EXCEPT ![c] = BufferPtr]
          /\ pc' = [pc EXCEPT ![c] = "chSysHalt"]
          \* :204 while (true) { } is where chSysHalt would return to
          /\ stack' = [stack EXCEPT ![c] = <<"assert_loop">> \o @]
          /\ UNCHANGED <<irqEnabled, log, buffer>>
    /\ UNCHANGED <<crcVars, build, hw, sink, call, ret, aargs, out, delivered, bkpt, reboot_request_flag>>

\* ---- the heap stubs

\* A malloc that hands out memory for a nonzero size.
malloc_Allocates(c, sz) ==
    /\ Running(c)
    /\ pc[c] = "app"
    /\ Returns(c, "malloc", <<sz>>, IF sz = 0 THEN NULL ELSE SomeObject)
    /\ UNCHANGED <<crcVars, build, hw, sink, stack, aargs, msg, irqEnabled, out, delivered, log, buffer, bkpt,
                   reboot_request_flag>>

\* void* malloc(size_t sz) (sys.cpp:232-237)
malloc(c, sz) ==
    /\ Running(c)
    /\ pc[c] = "app"
    /\ IF AssertFires(sz = 0)
       THEN /\ Enters(c, "malloc", <<sz>>, "__assert_func", <<>>)
            /\ aargs' = [aargs EXCEPT ![c] =
                   [file |-> "sys.cpp", line |-> 235, func |-> Lit("malloc"),
                    expr |-> "sz == 0"]]
       ELSE /\ Returns(c, "malloc", <<sz>>, NULL)
            /\ UNCHANGED <<stack, aargs>>
    /\ UNCHANGED <<crcVars, build, hw, sink, msg, irqEnabled, out, delivered, log, buffer, bkpt,
                   reboot_request_flag>>

\* void* calloc(size_t num, size_t sz) (sys.cpp:239-245)
calloc(c, num, sz) ==
    /\ Running(c)
    /\ pc[c] = "app"
    /\ IF AssertFires((num = 0) \/ (sz = 0))
       THEN /\ Enters(c, "calloc", <<num, sz>>, "__assert_func", <<>>)
            /\ aargs' = [aargs EXCEPT ![c] =
                   [file |-> "sys.cpp", line |-> 243, func |-> Lit("calloc"),
                    expr |-> "(num == 0) || (sz == 0)"]]
       ELSE /\ Returns(c, "calloc", <<num, sz>>, NULL)
            /\ UNCHANGED <<stack, aargs>>
    /\ UNCHANGED <<crcVars, build, hw, sink, msg, irqEnabled, out, delivered, log, buffer, bkpt,
                   reboot_request_flag>>

\* void* realloc(void*, size_t sz) (sys.cpp:247-252)
realloc(c, p, sz) ==
    /\ Running(c)
    /\ pc[c] = "app"
    /\ IF AssertFires(sz = 0)
       THEN /\ Enters(c, "realloc", <<p, sz>>, "__assert_func", <<>>)
            /\ aargs' = [aargs EXCEPT ![c] =
                   [file |-> "sys.cpp", line |-> 250, func |-> Lit("realloc"),
                    expr |-> "sz == 0"]]
       ELSE /\ Returns(c, "realloc", <<p, sz>>, NULL)
            /\ UNCHANGED <<stack, aargs>>
    /\ UNCHANGED <<crcVars, build, hw, sink, msg, irqEnabled, out, delivered, log, buffer, bkpt,
                   reboot_request_flag>>

\* A free that halts on the null pointer and ignores the others.
free_Inverted(c, p) ==
    /\ Running(c)
    /\ pc[c] = "app"
    /\ IF p = NULL
       THEN /\ Enters(c, "free", <<p>>, "chSysHalt", <<"free_return">>)
            /\ msg' = [msg EXCEPT ![c] = Lit("free")]
       ELSE /\ Returns(c, "free", <<p>>, Void)
            /\ UNCHANGED <<stack, msg>>
    /\ UNCHANGED <<crcVars, build, hw, sink, aargs, irqEnabled, out, delivered, log, buffer, bkpt,
                   reboot_request_flag>>

\* void free(void* p) (sys.cpp:254-263)
free(c, p) ==
    /\ Running(c)
    /\ pc[c] = "app"
    /\ IF p # NULL
       THEN /\ Enters(c, "free", <<p>>, "chSysHalt", <<"free_return">>)
            /\ msg' = [msg EXCEPT ![c] = Lit("free")]
       ELSE /\ Returns(c, "free", <<p>>, Void)
            /\ UNCHANGED <<stack, msg>>
    /\ UNCHANGED <<crcVars, build, hw, sink, aargs, irqEnabled, out, delivered, log, buffer, bkpt,
                   reboot_request_flag>>

\* ---- the reboot request flag

\* void requestReboot() (sys.cpp:55-58)
requestReboot(c) ==
    /\ Running(c)
    /\ pc[c] = "app"
    /\ reboot_request_flag' = TRUE
    /\ Returns(c, "requestReboot", <<>>, Void)
    /\ UNCHANGED <<crcVars, build, hw, sink, stack, aargs, msg, irqEnabled, out, delivered, log, buffer, bkpt>>

\* An isRebootRequested() that reads the flag and clears it.
isRebootRequested_Clears(c) ==
    /\ Running(c)
    /\ pc[c] = "app"
    /\ Returns(c, "isRebootRequested", <<>>, Bool(reboot_request_flag))
    /\ reboot_request_flag' = FALSE
    /\ UNCHANGED <<crcVars, build, hw, sink, stack, aargs, msg, irqEnabled, out, delivered, log, buffer, bkpt>>

\* bool isRebootRequested() (sys.cpp:60-63)
isRebootRequested(c) ==
    /\ Running(c)
    /\ pc[c] = "app"
    /\ Returns(c, "isRebootRequested", <<>>, Bool(reboot_request_flag))
    /\ UNCHANGED <<crcVars, build, hw, sink, stack, aargs, msg, irqEnabled, out, delivered, log, buffer, bkpt,
                   reboot_request_flag>>

\* ---- the sleep wrappers

\* The system tick of the build: CH_CFG_ST_FREQUENCY ticks in a second,
\* counted in CH_CFG_ST_RESOLUTION bits.
CH_CFG_ST_FREQUENCY == 1000
CH_CFG_ST_RESOLUTION == 16

Zero == <<"0">>

\* ((uint64_t)useconds * CH_CFG_ST_FREQUENCY + 999999) / 1000000
\* (sys.cpp:210), the product taken apart at a million so that no
\* intermediate value leaves the range of the integers at hand.
UsleepTicks(useconds) ==
    (useconds \div 1000000) * CH_CFG_ST_FREQUENCY
    + ((useconds % 1000000) * CH_CFG_ST_FREQUENCY + 999999) \div 1000000

\* int usleep(useconds_t useconds) (sys.cpp:208-218): the thread sleeps
\* when useconds > 0, and 0 is returned.
usleep(c, useconds) ==
    /\ Running(c)
    /\ pc[c] = "app"
    /\ IF AssertFires(UsleepTicks(useconds) < 2 ^ CH_CFG_ST_RESOLUTION)
       THEN /\ Enters(c, "usleep", <<useconds>>, "__assert_func", <<>>)
            /\ aargs' = [aargs EXCEPT ![c] =
                   [file |-> "sys.cpp", line |-> 210, func |-> Lit("usleep"),
                    expr |-> "(((uint64_t)useconds * (uint64_t)CH_CFG_ST_FREQUENCY + 999999ULL) / 1000000ULL) < (1ULL << CH_CFG_ST_RESOLUTION)"]]
       ELSE /\ Returns(c, "usleep", <<useconds>>, Zero)
            /\ UNCHANGED <<stack, aargs>>
    /\ UNCHANGED <<crcVars, build, hw, sink, msg, irqEnabled, out, delivered, log, buffer, bkpt,
                   reboot_request_flag>>

\* unsigned sleep(unsigned int seconds) (sys.cpp:221-230): the thread
\* sleeps when seconds > 0, and 0 is returned.
sleep(c, seconds) ==
    /\ Running(c)
    /\ pc[c] = "app"
    /\ IF AssertFires(seconds * CH_CFG_ST_FREQUENCY < 2 ^ CH_CFG_ST_RESOLUTION)
       THEN /\ Enters(c, "sleep", <<seconds>>, "__assert_func", <<>>)
            /\ aargs' = [aargs EXCEPT ![c] =
                   [file |-> "sys.cpp", line |-> 223, func |-> Lit("sleep"),
                    expr |-> "((uint64_t)seconds * (uint64_t)CH_CFG_ST_FREQUENCY) < (1ULL << CH_CFG_ST_RESOLUTION)"]]
       ELSE /\ Returns(c, "sleep", <<seconds>>, Zero)
            /\ UNCHANGED <<stack, aargs>>
    /\ UNCHANGED <<crcVars, build, hw, sink, msg, irqEnabled, out, delivered, log, buffer, bkpt,
                   reboot_request_flag>>

\* sleep_until -= chVTGetSystemTimeX() in systime_t, read as signed
\* (sys.cpp:32-33, 40).
Lag(sleep_until, now) ==
    LET d == (sleep_until - now) % (2 ^ CH_CFG_ST_RESOLUTION)
    IN  IF d >= 2 ^ (CH_CFG_ST_RESOLUTION - 1)
        THEN d - 2 ^ CH_CFG_ST_RESOLUTION ELSE d

\* void sleepUntilChTime(systime_t sleep_until) (sys.cpp:29-51), called at
\* system time now: under the system lock the thread sleeps when the time
\* is yet to come, and the lock is released; a debug build then logs a
\* time that has passed. Nothing of this module's state is written.
sleepUntilChTime(c, sleep_until, now) ==
    /\ Running(c)
    /\ pc[c] = "app"
    /\ Returns(c, "sleepUntilChTime",
               <<sleep_until, now,
                 IF Lag(sleep_until, now) > 0 THEN "chThdSleepS"
                 ELSE IF Lag(sleep_until, now) < 0 /\ build.DEBUG_BUILD
                 THEN "DEBUG_LOG" ELSE "">>, Void)
    /\ UNCHANGED <<crcVars, build, hw, sink, stack, aargs, msg, irqEnabled, out, delivered, log, buffer, bkpt,
                   reboot_request_flag>>

\* ---- application code and interrupts (the environment)

Useconds == {0, 66000000}
Seconds == {1, 66}
Times == {0, 65535}
Sizes == {0, 1}
Pointers == {NULL, SomeObject}
HaltMessages == {NULL, Lit("stack overflow")}
\* An expression of 200 characters, as many as __assert_func's buffer has.
LongExpr ==
    "(table[00] == expected[00]) && (table[01] == expected[01]) && (table[02] == expected[02]) && (table["
    \o "03] == expected[03]) && (table[04] == expected[04]) && (table[05] == expected[05]) && (table[06] == "

\* The failed assertions of application code: the one of CRC64WE::add
\* (util.hpp:63), one whose function name is a null pointer, and one whose
\* text does not fit into the buffer of __assert_func.
AppAsserts ==
    { [file |-> "util.hpp", line |-> 63, func |-> Lit("add"),
       expr |-> "bytes != nullptr"],
      [file |-> "main.c", line |-> 7, func |-> NULL, expr |-> "0"],
      [file |-> "main.c", line |-> 12345, func |-> Lit("verify"), expr |-> LongExpr] }

\* Application code fails an assert() of its own.
AppAssert(c, a) ==
    /\ Running(c)
    /\ pc[c] = "app"
    /\ build.asserts
    /\ Enters(c, "assert", <<a>>, "__assert_func", <<>>)
    /\ aargs' = [aargs EXCEPT ![c] = a]
    /\ UNCHANGED <<crcVars, build, hw, sink, msg, irqEnabled, out, delivered, log, buffer, bkpt,
                   reboot_request_flag>>

\* Application code calls chSysHalt(m).
AppHalt(c, m) ==
    /\ Running(c)
    /\ pc[c] = "app"
    /\ Enters(c, "chSysHalt", <<m>>, "chSysHalt", <<>>)
    /\ msg' = [msg EXCEPT ![c] = m]
    /\ UNCHANGED <<crcVars, build, hw, sink, aargs, irqEnabled, out, delivered, log, buffer, bkpt,
                   reboot_request_flag>>

\* An assert(bytes != nullptr) that lets a null pointer pass when there is
\* nothing to read: assert(len == 0 || bytes != nullptr).
NullCheck_LenFirst(bytes, len) == len = 0 \/ bytes # NULL

\* The condition of assert(bytes != nullptr) (util.hpp:63), which precedes
\* the loop and does not read len.
NullCheck(bytes, len) == bytes # NULL

\* The lengths application code passes with a null pointer, and the bytes
\* a read through a null pointer may give.
NullLens == {0, 1, 2}
GarbageBytes == {0, 255}

\* Application code calls crc.add(nullptr, len) (util.hpp:60-68). With
\* assertions the assert at line 63 calls __assert_func before the loop at
\* line 64. Without them the loop runs len times: with len = 0 it returns,
\* else *bytes++ reads through a null pointer, which is undefined: the
\* read gives some bytes, or traps into the unused vector. What the thread
\* does after the undefined read is not followed.
AddNull(len) ==
    /\ pc["thread"] = "app" /\ pc["isr"] = "idle"
    /\ IF AssertFires(NullCheck(NULL, len))
       THEN /\ Enters("thread", "add", <<NULL, len>>, "__assert_func", <<>>)
            /\ aargs' = [aargs EXCEPT !["thread"] =
                             [file |-> "util.hpp", line |-> 63,
                              func |-> Lit("add"), expr |-> "bytes != nullptr"]]
            /\ UNCHANGED crcVars
       ELSE IF len = 0
       THEN /\ Returns("thread", "add", <<NULL, len>>, Void)
            /\ lastOp' = "add"
            /\ kinds' = kinds \cup {"buffer"}
            /\ interleaved' = (interleaved \/ lastOp = "get")
            /\ UNCHANGED <<crc_, data, pos, result, prevResult, stack, aargs>>
       ELSE \/ /\ \E read \in [1..len -> GarbageBytes] :
                     crc_' = addBuf(crc_, read, len)
               /\ call' = [call EXCEPT
                             !["thread"] = [fn |-> "add", args |-> <<NULL, len>>]]
               /\ pc' = [pc EXCEPT !["thread"] = "undefined"]
               /\ lastOp' = "undefined"
               /\ UNCHANGED <<data, pos, result, prevResult, kinds,
                              interleaved, stack, ret, aargs>>
            \/ /\ pc' = [pc EXCEPT !["isr"] = "_unhandled_exception"]
               /\ call' = [call EXCEPT
                             !["thread"] = [fn |-> "add", args |-> <<NULL, len>>],
                             !["isr"] = [fn |-> "_unhandled_exception",
                                         args |-> <<>>]]
               /\ stack' = [stack EXCEPT !["isr"] = <<"idle">>]
               /\ ret' = [c \in Ctx |-> NoRet]
               /\ lastOp' = "undefined"
               /\ UNCHANGED <<crc_, data, pos, result, prevResult, kinds,
                              interleaved, aargs>>
    /\ UNCHANGED <<build, hw, sink, msg, irqEnabled, out, delivered, log,
                   buffer, bkpt, reboot_request_flag>>

\* An interrupt or a trap is taken: its vector is a handler of the
\* application, or the unused vector, _unhandled_exception.
IrqEnter ==
    /\ irqEnabled
    /\ pc["isr"] = "idle"
    /\ \E handled \in BOOLEAN :
          /\ pc' = [pc EXCEPT !["isr"] =
                       IF handled THEN "app" ELSE "_unhandled_exception"]
          /\ call' = [call EXCEPT !["isr"] =
                       IF handled THEN NoCall
                       ELSE [fn |-> "_unhandled_exception", args |-> <<>>]]
    /\ stack' = [stack EXCEPT !["isr"] = <<"idle">>]
    /\ ret' = [c \in Ctx |-> NoRet]
    /\ UNCHANGED <<crcVars, build, hw, sink, aargs, msg, irqEnabled, out, delivered, log, buffer, bkpt,
                   reboot_request_flag>>

\* The handler returns and the thread goes on.
IrqReturn ==
    /\ pc["isr"] = "app"
    /\ pc' = [pc EXCEPT !["isr"] = "idle"]
    /\ stack' = [stack EXCEPT !["isr"] = <<>>]
    /\ ret' = [c \in Ctx |-> NoRet]
    /\ UNCHANGED <<crcVars, build, hw, sink, call, aargs, msg, irqEnabled, out, delivered, log, buffer, bkpt,
                   reboot_request_flag>>

\* The thread calls the heap, the reboot flag, free and chSysHalt, and
\* fails assertions; an interrupt handler fails assertions, or is the unused
\* vector.
Next ==
    \/ \E sz \in Sizes : malloc("thread", sz)
    \/ \E num \in Sizes, sz \in Sizes : calloc("thread", num, sz)
    \/ \E p \in Pointers, sz \in Sizes : realloc("thread", p, sz)
    \/ requestReboot("thread")
    \/ isRebootRequested("thread")
    \/ \E p \in Pointers : free("thread", p)
    \/ \E useconds \in Useconds : usleep("thread", useconds)
    \/ \E seconds \in Seconds : sleep("thread", seconds)
    \/ \E sleep_until \in Times, now \in Times :
          sleepUntilChTime("thread", sleep_until, now)
    \/ \E m \in HaltMessages : AppHalt("thread", m)
    \/ \E c \in Ctx, a \in AppAsserts : AppAssert(c, a)
    \/ \E c \in Ctx : __assert_func(c)
    \/ \E c \in Ctx : _unhandled_exception(c)
    \/ \E c \in Ctx : chSysHalt(c)
    \/ \E c \in Ctx : zchSysHaltHook(c)
    \/ \E c \in Ctx : applicationHaltHook(c)
    \/ \E c \in Ctx : FunctionReturn(c)
    \/ IrqEnter
    \/ IrqReturn

Init ==
    /\ InitSysVars
    /\ crc_ = InitialCrc /\ data = <<>> /\ pos = 0
    /\ result = NoResult /\ prevResult = NoResult /\ lastOp = "construct"
    /\ kinds = {} /\ interleaved = FALSE

Spec == Init /\ [][Next]_vars

InitCrc ==
    /\ InitCrcVars
    /\ build \in {b \in Builds : b.asserts /\ b.DEBUG_BUILD /\ b.CORTEX_M = 4
                     /\ ~b.AGGRESSIVE_SIZE_OPTIMIZATION /\ b.CH_CFG_USE_REGISTRY}
    /\ hw = [C_DEBUGEN |-> FALSE, self |-> NULL]
    /\ pc = [c \in Ctx |-> IF c = "thread" THEN "app" ELSE "idle"]
    /\ stack = [c \in Ctx |-> <<>>]
    /\ call = [c \in Ctx |-> NoCall]
    /\ ret = [c \in Ctx |-> NoRet]
    /\ aargs = [c \in Ctx |-> NoAssert]
    /\ msg = [c \in Ctx |-> NULL]
    /\ irqEnabled = TRUE
    /\ out = <<>>
    /\ sink = "works"
    /\ delivered = <<>>
    /\ log = <<>>
    /\ buffer = ""
    /\ bkpt = FALSE
    /\ reboot_request_flag = FALSE

NextCrc == AddByte \/ AddBuffer \/ Get

SpecCrc == InitCrc /\ [][NextCrc]_vars

\* The CRC64WE object in a program that may pass it a null pointer, built
\* with and without assertions.
AddInputs == {<<>>, <<255>>, <<1, 2>>}

InitAdd ==
    /\ InitSysVars
    /\ ~build.DEBUG_BUILD /\ ~build.CH_CFG_USE_REGISTRY
    /\ build.AGGRESSIVE_SIZE_OPTIMIZATION
    /\ sink = "works"
    /\ crc_ = InitialCrc /\ data \in AddInputs /\ pos = 0
    /\ result = NoResult /\ prevResult = NoResult /\ lastOp = "construct"
    /\ kinds = {} /\ interleaved = FALSE

NextAdd ==
    \/ AddByte
    \/ AddBuffer
    \/ Get
    \/ \E len \in NullLens : AddNull(len)
    \/ \E c \in Ctx : __assert_func(c)
    \/ \E c \in Ctx : _unhandled_exception(c)
    \/ \E c \in Ctx : chSysHalt(c)
    \/ \E c \in Ctx : zchSysHaltHook(c)
    \/ \E c \in Ctx : applicationHaltHook(c)
    \/ \E c \in Ctx : FunctionReturn(c)

SpecAdd == InitAdd /\ [][NextAdd]_vars

\* ---- the vocabulary of the properties

\* Where a context is: in a trigger before its chSysHalt call, in chSysHalt
\* and the halt hook, or in chSysHalt's loop.
TriggerLabels == {"_unhandled_exception", "__assert_func", "chsnprintf", "assert_halt"}
ReporterLabels ==
    {"chSysHalt", "zchSysHaltHook", "applicationHaltHook", "port_disable",
     "panic_line", "core_registers", "process_stack", "main_stack", "scb",
     "breakpoint", "return"}
InTrigger(c) == pc[c] \in TriggerLabels
InReporter(c) == pc[c] \in ReporterLabels
Halted(c) == pc[c] = "halted"

ReporterState ==
    IF \E c \in Ctx : Halted(c) THEN "Halted"
    ELSE IF \E c \in Ctx : InReporter(c) THEN "Reporting"
    ELSE "Armed"
Rank(s) == CASE s = "Armed" -> 0 [] s = "Reporting" -> 1 [] s = "Halted" -> 2

\* The positions in the log of the events ev, and of those of context c.
AllEvents(ev) == {i \in DOMAIN log : log[i].ev = ev}
Events(c, ev) == {i \in AllEvents(ev) : log[i].ctx = c}

IsPrefix(p, s) == Len(p) <= Len(s) /\ SubSeq(s, 1, Len(p)) = p

AllocFns == {"malloc", "calloc", "realloc"}
NonZeroRequest(r) ==
    IF r.fn = "calloc" THEN r.args[1] # 0 /\ r.args[2] # 0
    ELSE r.args[Len(r.args)] # 0

\* ---- the fatal halt never returns

\* C1: once a context has called a trigger (__assert_func, chSysHalt,
\* _unhandled_exception, free of a non-null pointer) it stays in the trigger,
\* the reporter or the halt loop in every later step, no return from a
\* trigger is ever recorded for its caller, and the reporter's state never
\* moves back from Halted or Reporting.
C1_NeverReturns ==
    [][ /\ \A c \in Ctx :
              /\ (InTrigger(c) \/ InReporter(c) \/ Halted(c))
                    => (InTrigger(c)' \/ InReporter(c)' \/ Halted(c)')
              /\ ret'[c].fn \notin {"chSysHalt", "assert", "_unhandled_exception"}
              /\ ret'[c].fn = "free" => ret'[c].args = <<NULL>>
        /\ Rank(ReporterState') >= Rank(ReporterState) ]_vars

\* An explicit chSysHalt(msg) of the thread has ended in the halt loop.
C1_Witness ==
    /\ Halted("thread")
    /\ call["thread"].fn = "chSysHalt"
    /\ ReporterState = "Halted"

\* ---- chunking

\* C2: when all of a byte sequence has been fed to a fresh accumulator, in
\* whatever pieces and through whichever of add(byte) and add(data, len),
\* get() returns what it returns after one add(data, len) of the whole
\* sequence.
C2_ChunkInvariance ==
    (pos = Len(data) /\ lastOp = "get")
        => result = get(addBuf(InitialCrc, data, Len(data))).value

\* [0x01, 0x02, 0x03] was fed in three single-byte calls and get() returned
\* the value of the single call.
C2_Witness ==
    /\ data = <<1, 2, 3>>
    /\ pos = 3
    /\ kinds = {"byte"}
    /\ lastOp = "get"
    /\ result = get(addBuf(InitialCrc, <<1, 2, 3>>, 3)).value

\* ---- the order of the halt hook's steps

\* C3 as stated: the application's hook always runs with the interrupts
\* still enabled, and every sink call is made with the interrupts disabled
\* and after the hook.
C3_HookBeforeDisable ==
    /\ \A h \in AllEvents("applicationHaltHook") : log[h].irq
    /\ \A p \in AllEvents("emergencyPrint") :
          /\ ~log[p].irq
          /\ \E h \in Events(log[p].ctx, "applicationHaltHook") : h < p

\* C3, amended: every sink call of a context is made with the interrupts
\* disabled, after a port_disable() of that context which itself follows
\* the context's call of the application's hook; and when the trigger is a
\* failed assertion the hook runs with the interrupts already disabled.
C3_HookDisablePrint ==
    /\ \A p \in AllEvents("emergencyPrint") :
          /\ ~log[p].irq
          /\ \E h \in Events(log[p].ctx, "applicationHaltHook") :
                \E d \in Events(log[p].ctx, "port_disable") : h < d /\ d < p
    /\ \A h \in AllEvents("applicationHaltHook") :
          call[log[h].ctx].fn \in AllocFns \cup {"assert"} => ~log[h].irq

\* A failed assertion has reached the panic line: its hook ran with the
\* interrupts disabled.
C3_Witness ==
    \E c \in Ctx :
        /\ call[c].fn = "assert"
        /\ Events(c, "emergencyPrint") # {}
        /\ \E h \in Events(c, "applicationHaltHook") : ~log[h].irq

\* ---- the heap stubs

\* C4: malloc, calloc and realloc return only the null pointer; a request
\* of zero size never fails the assertion, whatever the build; a request
\* of nonzero size returns only when the assertions are compiled out, and
\* otherwise is in __assert_func, the reporter or the halt loop.
C4_AllocationGuard ==
    \A c \in Ctx :
        /\ ret[c].fn \in AllocFns
              => /\ ret[c].value = NULL
                 /\ build.asserts => ~NonZeroRequest(ret[c])
        /\ call[c].fn \in AllocFns
              => /\ build.asserts
                 /\ NonZeroRequest(call[c])
                 /\ InTrigger(c) \/ InReporter(c) \/ Halted(c)

\* calloc(1, 1) of a build with assertions has ended in the halt loop, the
\* failed assertion on the sink.
C4_Witness ==
    /\ Halted("thread")
    /\ call["thread"] = [fn |-> "calloc", args |-> <<1, 1>>]
    /\ \E i \in DOMAIN out : out[i] = "sys.cpp:243:calloc:(num == 0) || (sz == 0)"

\* C5: free(nullptr) returns with nothing on the sink and the reporter
\* Armed; free of a non-null pointer never returns: whatever the build, it
\* is in the reporter or the halt loop with the message "free", which is on
\* the sink once the context is in the halt loop.
C5_Free ==
    \A c \in Ctx :
        /\ ret[c].fn = "free"
              => /\ ret[c].args = <<NULL>>
                 /\ out = <<>>
                 /\ ReporterState = "Armed"
        /\ call[c].fn = "free"
              => /\ call[c].args # <<NULL>>
                 /\ msg[c] = Lit("free")
                 /\ InReporter(c) \/ Halted(c)
                 /\ Halted(c) => \E i \in DOMAIN out : out[i] = "free"

\* free of a non-null pointer has ended in the halt loop in a build without
\* assertions.
C5_Witness ==
    /\ ~build.asserts
    /\ Halted("thread")
    /\ call["thread"] = [fn |-> "free", args |-> <<SomeObject>>]
    /\ \E i \in DOMAIN out : out[i] = "free"

\* ---- the panic line

\* The text each trigger hands to chSysHalt, none for a null message.
SuppliedText(c) ==
    CASE call[c].fn = "free" -> <<"free">>
      [] call[c].fn = "_unhandled_exception" -> <<"UNDEFINED IRQ">>
      [] call[c].fn = "chSysHalt" ->
            IF call[c].args[1] = NULL THEN <<>> ELSE <<"stack overflow">>
      [] call[c].fn = "malloc" -> <<"sys.cpp:235:malloc:sz == 0">>
      [] call[c].fn = "calloc" -> <<"sys.cpp:243:calloc:(num == 0) || (sz == 0)">>
      [] call[c].fn = "realloc" -> <<"sys.cpp:250:realloc:sz == 0">>
      [] call[c].fn = "usleep" ->
            <<"sys.cpp:210:usleep:(((uint64_t)useconds * (uint64_t)CH_CFG_ST_FREQUENCY + 999999ULL) / 1000000ULL) < (1ULL << CH_CFG_ST_RESOLUTION)">>
      [] call[c].fn = "sleep" ->
            <<"sys.cpp:223:sleep:((uint64_t)seconds * (uint64_t)CH_CFG_ST_FREQUENCY) < (1ULL << CH_CFG_ST_RESOLUTION)">>
      [] call[c].fn = "assert" ->
            IF call[c].args[1].line = 63
            THEN <<"util.hpp:63:add:bytes != nullptr">>
            ELSE IF call[c].args[1].line = 7
            THEN <<"main.c:7::0">>
            ELSE <<"main.c:12345:verify:(table[00] == expected[00]) && (table[01] == expected[01]) && (table[02] == expe"
                   \o "cted[02]) && (table[03] == expected[03]) && (table[04] == expected[04]) && (table[05] == expected[0">>

ThreadNameExposed == build.CH_CFG_USE_REGISTRY /\ hw.self = <<Lit("main")>>

\* The placeholder of sleepUntilChTime (sys.cpp:45)
Placeholder == "<?>"

\* C6 as stated: the sink's first strings are the opening delimiter, the
\* thread's name or else a placeholder, the closing "] ", the supplied text
\* and the trailing delimiter.
C6_NameOrPlaceholder ==
    \A c \in Ctx :
        Events(c, "emergencyPrint") # {}
            => IsPrefix(<<"\r\nPANIC [">>
                        \o <<IF ThreadNameExposed THEN "main" ELSE Placeholder>>
                        \o <<"] ">> \o SuppliedText(c) \o <<"\r\n">>,
                        out)

\* C6, amended: the sink's first strings are the opening delimiter, the
\* thread's name when the registry is compiled in and the running thread has
\* one and nothing otherwise, the closing "] ", the supplied text when the
\* message is not null, and the trailing delimiter.
C6_PanicLine ==
    \A c \in Ctx :
        Events(c, "emergencyPrint") # {}
            => IsPrefix(<<"\r\nPANIC [">>
                        \o (IF ThreadNameExposed THEN <<"main">> ELSE <<>>)
                        \o <<"] ">> \o SuppliedText(c) \o <<"\r\n">>,
                        out)

\* A build without the registry has printed the panic line of free: the
\* delimiters with nothing between them, then the message.
C6_Witness ==
    /\ ~build.CH_CFG_USE_REGISTRY
    /\ call["thread"].fn = "free"
    /\ Len(out) >= 4
    /\ SubSeq(out, 1, 4) = <<"\r\nPANIC [", "] ", "free", "\r\n">>

\* ---- the check value

\* C7: after the nine bytes of "123456789" get() returns
\* 0x62EC59E3F1A4F00A.
C7_CheckValue ==
    (data = CheckInput /\ pos = Len(data) /\ lastOp = "get") => result = CheckValue

\* "123456789" was fed through both kinds of add and get() returned the
\* check value.
C7_Witness ==
    /\ data = CheckInput
    /\ pos = 9
    /\ kinds = {"byte", "buffer"}
    /\ lastOp = "get"
    /\ result = <<25324, 23011, 61860, 61450>>

\* ---- no preemption after the interrupts are disabled

\* The context of the first port_disable()
Disabler ==
    log[CHOOSE i \in AllEvents("port_disable") :
            \A j \in AllEvents("port_disable") : i <= j].ctx

\* C8: every sink call is made with the interrupts disabled; once the
\* interrupts are disabled they stay disabled, and no context but the one
\* that disabled them takes a step.
C8_NoPreemption ==
    [][ /\ \A i \in DOMAIN log' : log'[i].ev = "emergencyPrint" => ~log'[i].irq
        /\ ~irqEnabled
              => /\ ~irqEnabled'
                 /\ \A c \in Ctx \ {Disabler} :
                       pc'[c] = pc[c] /\ stack'[c] = stack[c] ]_vars

\* The interrupt handler has halted after the whole report; the thread it
\* preempted is still where it was, inside the application's hook.
C8_Witness ==
    /\ ~irqEnabled
    /\ Halted("isr")
    /\ pc["thread"] = "applicationHaltHook"
    /\ Events("isr", "emergencyPrint") # {}

\* ---- two fatal halts

PanicHeaders == {i \in DOMAIN out : out[i] = "\r\nPANIC ["}

\* C9 as stated: in every interleaving the application's hook is invoked at
\* most once and the panic header is printed at most once.
C9_HookOnce ==
    /\ Cardinality(AllEvents("applicationHaltHook")) <= 1
    /\ Cardinality(PanicHeaders) <= 1

\* ---- get() is pure

\* C10: after a get(), and after adds that followed a get(), the running
\* value is the one the adds alone produce; a get() that follows a get()
\* returns the same value; a get() after adds and gets in any order returns
\* what it returns after the adds alone.
C10_GetIsPure ==
    /\ (lastOp = "get" \/ interleaved) => crc_ = addBuf(InitialCrc, data, pos)
    /\ prevResult # NoResult => prevResult = result
    /\ (lastOp = "get" /\ interleaved)
          => result = Xor64(addBuf(InitialCrc, data, pos), AllOnes)

\* Two get() calls in a row at the end of a sequence whose adds were
\* interleaved with earlier get() calls.
C10_Witness ==
    /\ interleaved
    /\ lastOp = "get"
    /\ prevResult # NoResult
    /\ Len(data) >= 2
    /\ pos = Len(data)

\* ---- the halt is reached

\* A step of context c on the fatal halt path.
HaltStep(c) ==
    \/ __assert_func(c)
    \/ _unhandled_exception(c)
    \/ chSysHalt(c)
    \/ zchSysHaltHook(c)
    \/ applicationHaltHook(c)
    \/ FunctionReturn(c)

\* An interrupt handler of the application runs to its end: it returns or
\* fails an assertion.
HandlerEnds == IrqReturn \/ \E a \in AppAsserts : AppAssert("isr", a)

\* A context on the fatal halt path is resumed after every interrupt that
\* returns, and goes on; interrupt handlers end. Each of these steps moves
\* the context's position.
Fairness ==
    /\ \A c \in Ctx : SF_pc(HaltStep(c))
    /\ WF_pc(HandlerEnds)

\* The builds that differ in what decides the path to the halt loop: the
\* assertions and the verbosity. The registry, the debug build and the
\* core's version change only what is printed.
InitLive ==
    /\ Init
    /\ ~build.DEBUG_BUILD
    /\ ~build.CH_CFG_USE_REGISTRY
    /\ build.CORTEX_M = IF build.AGGRESSIVE_SIZE_OPTIMIZATION THEN 0 ELSE 4

SpecLive == InitLive /\ [][Next]_vars /\ Fairness

\* How many strings a whole report hands to the sink: the panic line, and
\* unless the build is optimized for size the four sections, four strings
\* to a register.
ReportLength(c) ==
    2 + (IF ThreadNameExposed THEN 1 ELSE 0) + Len(SuppliedText(c)) + 1
    + (IF build.AGGRESSIVE_SIZE_OPTIMIZATION THEN 0
       ELSE (1 + 4 * (5 + (IF build.CORTEX_M >= 3 THEN 2 ELSE 0)
                        + (IF build.CORTEX_M >= 4 THEN 1 ELSE 0)))
            + (1 + 4 * 9) + (1 + 4 * 9) + (1 + 4 * 10))

C12_FreshIsZero ==
    (pos = 0 /\ lastOp = "get")
        => /\ result = <<0, 0, 0, 0>>
           /\ result = Xor64(<<65535, 65535, 65535, 65535>>, AllOnes)

\* get() returned 0 after add(data, 0) calls on a non-empty buffer.
C12_Witness ==
    /\ pos = 0
    /\ Len(data) > 0
    /\ kinds = {"buffer"}
    /\ lastOp = "get"
    /\ result = <<0, 0, 0, 0>>

\* ---- single-bit errors

\* The sequence s with bit b of its i-th byte flipped.
FlipBit(s, i, b) == [s EXCEPT ![i] = BitXor(s[i], 2 ^ b, 8)]

\* C13: the value get() returns after a sequence of one byte or more
\* differs from the value of a fresh accumulator fed the sequence with any
\* one of its bits flipped.
C13_SingleBitFlip ==
    (pos = Len(data) /\ Len(data) >= 1 /\ lastOp = "get")
        => \A i \in 1..Len(data), b \in 0..7 :
              result # get(addBuf(InitialCrc, FlipBit(data, i, b), Len(data))).value

\* get() was called after all of "123456789", whose 72 single-bit flips
\* include the one that turns its last byte "9" into "8".
C13_Witness ==
    /\ data = CheckInput
    /\ pos = Len(data)
    /\ lastOp = "get"
    /\ FlipBit(data, 9, 0)[9] = 56
    /\ result # get(addBuf(InitialCrc, FlipBit(data, 9, 0), 9)).value

\* ---- the unrolled update and the documented one

\* A 64-bit register as its 64 bits, bit 63 first, and back.
ToBits(w) ==
    [i \in 1..64 |-> (w[((i - 1) \div 16) + 1] \div (2 ^ (15 - ((i - 1) % 16)))) % 2]
RECURSIVE BitsValue(_, _, _)
BitsValue(bits, from, n) ==
    IF n = 0 THEN 0
    ELSE 2 * BitsValue(bits, from, n - 1) + bits[from + n - 1]
FromBits(bits) ==
    <<BitsValue(bits, 1, 16), BitsValue(bits, 17, 16),
      BitsValue(bits, 33, 16), BitsValue(bits, 49, 16)>>

\* 0x42F0E1EBA9EA3693, bit 63 first.
RefPoly ==
    <<0,1,0,0,0,0,1,0, 1,1,1,1,0,0,0,0, 1,1,1,0,0,0,0,1, 1,1,1,0,1,0,1,1,
      1,0,1,0,1,0,0,1, 1,1,1,0,1,0,1,0, 0,0,1,1,0,1,1,0, 1,0,0,1,0,0,1,1>>

\* The documented round: the test of bit 63 is on the value before the
\* shift; the shift drops bit 63 and brings in a 0.
RefRound(bits) ==
    LET shifted == Tail(bits) \o <<0>>
    IN  IF bits[1] = 1
        THEN [i \in 1..64 |-> (shifted[i] + RefPoly[i]) % 2]
        ELSE shifted

RECURSIVE RefRounds(_, _)
RefRounds(bits, n) ==
    IF n = 0 THEN bits
    ELSE CHOOSE r \in {RefRounds(RefRound(b), n - 1) : b \in {bits}} : TRUE

\* The documented per-byte update: the byte into bits 63..56, then 8 rounds.
RefUpdate(w, byte) ==
    LET bits == ToBits(w)
        mixed == [i \in 1..64 |->
                     IF i <= 8 THEN (bits[i] + ((byte \div (2 ^ (8 - i))) % 2)) % 2
                     ELSE bits[i]]
    IN  FromBits(RefRounds(mixed, 8))

\* C14: on the register an accumulator holds after the bytes fed to it (the
\* seed, and the register after each input and after each prefix of
\* "123456789", taken once each, where single-byte calls have led to it),
\* the unrolled add(byte) gives for every byte value 0..255 what the
\* documented update gives.
C14_UnrolledIsReference ==
    (lastOp # "get" /\ ~interleaved /\ kinds \subseteq {"byte"}
     /\ (pos = Len(data) \/ data = CheckInput))
        => \A byte \in 0..255 : add(crc_, byte) = RefUpdate(crc_, byte)

\* The register after "123456789", whose bit 63 is set and bit 62 clear, so
\* that the rounds take both branches.
C14_Witness ==
    /\ data = CheckInput
    /\ pos = 9
    /\ lastOp = "add"
    /\ kinds = {"byte"}
    /\ AndMask(crc_)
    /\ ~AndMask(Shl64(crc_, 1))
    /\ add(crc_, 255) = RefUpdate(crc_, 255)

\* ---- the register dump

\* Where the string str is first handed to the sink, 0 if it never is.
FirstIndex(str) ==
    IF \E i \in DOMAIN out : out[i] = str
    THEN CHOOSE i \in DOMAIN out : out[i] = str /\ \A j \in 1..(i - 1) : out[j] # str
    ELSE 0

SectionHeaders ==
    <<"\r\nCore registers:\r\n", "\r\nProcess stack:\r\n", "\r\nMain stack:\r\n",
      "\r\nSCB:\r\n">>

\* How many strings the panic line of context c is.
PanicLineLength(c) == 3 + (IF ThreadNameExposed THEN 1 ELSE 0) + Len(SuppliedText(c))

\* The nine lines after the header at position h: label, tab, value, end
\* of line, with the labels and the values given.
StackSectionAt(h, values) ==
    LET labels == <<"Pointer", "R0", "R1", "R2", "R3", "R12", "R14[LR]", "R15[PC]", "PSR">>
    IN  \A k \in 1..9 :
           SubSeq(out, h + 4 * (k - 1) + 1, h + 4 * k)
               = <<labels[k], "\t", values[k], "\r\n">>

\* C15: when a context is at the breakpoint step or past it, a build with
\* the dump has printed right after the panic line the sections Core
\* registers, Process stack, Main stack and SCB in this order, each stack
\* section being the pointer (PSP, then MSP) and the eight words at offsets
\* 0..7 from it under the labels R0, R1, R2, R3, R12, R14[LR], R15[PC], PSR,
\* and the SCB section ending the report; a build optimized for size has
\* printed the panic line and nothing else. The debugger's breakpoint is
\* not hit before that.
C15_RegisterDump ==
    /\ \A c \in Ctx :
          (pc[c] \in {"breakpoint", "return"} \/ Halted(c))
             => IF build.AGGRESSIVE_SIZE_OPTIMIZATION
                THEN /\ Len(out) = PanicLineLength(c)
                     /\ \A k \in 1..4 : FirstIndex(SectionHeaders[k]) = 0
                ELSE LET core == FirstIndex(SectionHeaders[1])
                         process == FirstIndex(SectionHeaders[2])
                         main == FirstIndex(SectionHeaders[3])
                         scb == FirstIndex(SectionHeaders[4])
                     IN  /\ core = PanicLineLength(c) + 1
                         /\ core < process
                         /\ main = process + 37
                         /\ scb = main + 37
                         /\ Len(out) = scb + 40
                         /\ StackSectionAt(process,
                               <<"20001000", "00001000", "00001004", "00001008",
                                 "0000100c", "00001010", "00001014", "00001018",
                                 "0000101c">>)
                         /\ StackSectionAt(main,
                               <<"20002000", "00002000", "00002004", "00002008",
                                 "0000200c", "00002010", "00002014", "00002018",
                                 "0000201c">>)
    /\ bkpt => \E c \in Ctx : pc[c] = "return" \/ Halted(c)

\* A build with the dump and a debugger attached has hit the breakpoint
\* after the whole report.
C15_Witness ==
    /\ ~build.AGGRESSIVE_SIZE_OPTIMIZATION
    /\ bkpt
    /\ pc["thread"] = "return"
    /\ FirstIndex("\r\nSCB:\r\n") > FirstIndex("\r\nMain stack:\r\n")
    /\ FirstIndex("\r\nMain stack:\r\n") > 0

\* ---- the message of each trigger

AssertFns == AllocFns \cup {"assert", "usleep", "sleep"}

\* file, line, function and expression with ':' between them, the function
\* empty when it is null.
FullAssertText(a) ==
    a.file \o ":" \o Dec(a.line) \o ":"
    \o (IF a.func = NULL THEN "" ELSE a.func[2]) \o ":" \o a.expr

\* C16 as stated: once a failed assertion has asked for the halt, the
\* message is file, line, function and expression with ':' between them;
\* the message of the unused vector is "UNDEFINED IRQ"; the interrupts are
\* disabled before the message is formatted and the halt is asked for.
C16_WholeMessage ==
    \A c \in Ctx :
        /\ (call[c].fn \in AssertFns /\ (InReporter(c) \/ Halted(c)))
              => /\ Deref(msg[c], buffer) = FullAssertText(aargs[c])
                 /\ ~irqEnabled
        /\ (call[c].fn = "_unhandled_exception" /\ (InReporter(c) \/ Halted(c)))
              => msg[c] = Lit("UNDEFINED IRQ")
        /\ pc[c] \in {"chsnprintf", "assert_halt"} => ~irqEnabled

\* C16, amended: once a failed assertion has asked for the halt, the
\* message is the static buffer and the buffer holds the first 199
\* characters of file, line, function and expression with ':' between them,
\* the function empty when it is null; the message of the unused vector is
\* "UNDEFINED IRQ"; and __assert_func formats the buffer and asks for the
\* halt only with the interrupts disabled, by a port_disable() of its own
\* that comes before the application's hook.
C16_TriggerMessages ==
    \A c \in Ctx :
        /\ (call[c].fn \in AssertFns /\ (InReporter(c) \/ Halted(c)))
              => /\ msg[c] = BufferPtr
                 /\ <<buffer>> = SuppliedText(c)
                 /\ Len(buffer) <= 199
                 /\ IsPrefix(buffer, FullAssertText(aargs[c]))
                 /\ Len(FullAssertText(aargs[c])) <= 199
                       => buffer = FullAssertText(aargs[c])
                 /\ ~irqEnabled
                 /\ \E d \in Events(c, "port_disable") :
                       \A h \in Events(c, "applicationHaltHook") : d < h
        /\ (call[c].fn = "_unhandled_exception" /\ (InReporter(c) \/ Halted(c)))
              => msg[c] = Lit("UNDEFINED IRQ")
        /\ pc[c] \in {"chsnprintf", "assert_halt"}
              => ~irqEnabled /\ Events(c, "port_disable") # {}
        /\ buffer # "" => ~irqEnabled

\* A failed assertion of 220 characters has halted with the first 199 of
\* them printed.
C16_Witness ==
    /\ Halted("thread")
    /\ call["thread"].fn = "assert"
    /\ aargs["thread"].line = 12345
    /\ Len(FullAssertText(aargs["thread"])) = 220
    /\ Len(buffer) = 199
    /\ \E i \in DOMAIN out : out[i] = buffer

\* add() of s[from], s[from + 1], ..., s[to], one byte after the other
\* from the lowest index up.
RECURSIVE FoldInOrder(_, _, _, _)
FoldInOrder(crc, s, from, to) ==
    IF from > to THEN crc
    ELSE CHOOSE r \in {FoldInOrder(c, s, from + 1, to) :
                          c \in {add(crc, s[from])}} : TRUE

NullAddCalled(c) == call[c].fn = "add" /\ call[c].args[1] = NULL

\* C17: with assertions, add(nullptr, len) calls __assert_func with crc_
\* as it was, for every len, len = 0 included, and never returns: crc_
\* stays as it was up to the halt, whose message is the assertion of
\* util.hpp:63; an add that returns with the position moved by n, n = 0
\* included, has folded exactly the n bytes in between, lowest address
\* first, and with n = 0 has left crc_ alone.
C17_NullData ==
    /\ [](build.asserts =>
            /\ ret["thread"].fn = "add" => ret["thread"].args[1] # NULL
            /\ NullAddCalled("thread") =>
                  /\ pc["thread"] \in TriggerLabels \cup ReporterLabels \cup {"halted"}
                  /\ aargs["thread"].line = 63
                  /\ Halted("thread") =>
                        /\ msg["thread"] = BufferPtr
                        /\ buffer = "util.hpp:63:add:bytes != nullptr")
    /\ [][/\ (build.asserts /\ ~NullAddCalled("thread")
                 /\ call'["thread"].fn = "add" /\ call'["thread"].args[1] = NULL)
              => /\ crc_' = crc_
                 /\ pc'["thread"] = "__assert_func"
          /\ (build.asserts /\ NullAddCalled("thread")) => crc_' = crc_
          /\ lastOp' = "add"
              => /\ pos' >= pos
                 /\ crc_' = FoldInOrder(crc_, data, pos + 1, pos')
                 /\ pos' = pos => crc_' = crc_]_vars

\* After two bytes, add(nullptr, 0) has halted the program with the
\* assertion's message and the two bytes' crc_.
C17_Witness ==
    /\ build.asserts
    /\ Halted("thread")
    /\ call["thread"] = [fn |-> "add", args |-> <<NULL, 0>>]
    /\ data = <<1, 2>> /\ pos = 2
    /\ crc_ = addBuf(InitialCrc, <<1, 2>>, 2)
    /\ crc_ # InitialCrc
    /\ buffer = "util.hpp:63:add:bytes != nullptr"

ThreadReturnsFrom(fn) ==
    ret'["thread"].fn = fn /\ ret'["thread"] # ret["thread"]

\* C18: reboot_request_flag starts false and isRebootRequested() returns
\* what it holds; only a return of requestReboot() changes it, and to
\* true; once true it is true in every later state, whatever is called:
\* requestReboot() again, isRebootRequested(), the heap stubs, the sleep
\* wrappers, the halt path; and isRebootRequested() leaves every variable
\* but its caller's returned value as it was.
C18_RebootLatch ==
    /\ ~reboot_request_flag
    /\ [](\A c \in Ctx : ret[c].fn = "isRebootRequested"
             => ret[c].value = Bool(reboot_request_flag))
    /\ [][/\ reboot_request_flag => reboot_request_flag'
          /\ reboot_request_flag' # reboot_request_flag
                => ThreadReturnsFrom("requestReboot")
          /\ ThreadReturnsFrom("requestReboot") => reboot_request_flag'
          /\ ThreadReturnsFrom("isRebootRequested")
                => /\ ret'["thread"].value = Bool(reboot_request_flag)
                   /\ UNCHANGED <<crcVars, build, hw, pc, stack, call, aargs,
                                  msg, irqEnabled, out, sink, delivered, log,
                                  buffer, bkpt, reboot_request_flag>>]_vars

\* isRebootRequested() has returned true to the thread.
C18_Witness ==
    /\ reboot_request_flag
    /\ ret["thread"] = [fn |-> "isRebootRequested", args |-> <<>>,
                        value |-> <<"true">>]
    /\ pc["thread"] = "app"

====
